---- MODULE Spec2Model ----
(***************************************************************************)
(* Multi-tenant WhatsApp session manager (src/backend/server.js).          *)
(*                                                                         *)
(* The server keeps one in-memory table, sessions, from a tenant id        *)
(* (sessionId) to { client, ready, qrDataUrl }.  REST handlers and the     *)
(* event handlers that createSession attaches to a client read and write   *)
(* that table by sessionId.  Every await in an async handler is a point    *)
(* where other handlers run, so each async handler is split into one       *)
(* action per synchronous segment and the suspended continuation is kept   *)
(* in the bag tasks.                                                       *)
(*                                                                         *)
(* Every createSession builds one client and one session object, so both   *)
(* carry the same index: sessObj[c] is the session object that owns        *)
(* client c, and sessions[t] = c says that this object is registered.      *)
(***************************************************************************)
EXTENDS Integers, Sequences, FiniteSets, Bags, TLC

\* ---- bounds of the model ----
MaxAdapters == 3        \* clients that createSession may construct
MaxInputs == 4          \* requests, socket joins and adapter events accepted

Tenants == {"a", "session-a"}
Observers == {"o1", "o2"}
QrPayloads == {"XYZ", "UVW"}
AdapterIds == 1..MaxAdapters

NoSession == 0          \* sessions[sessionId] is undefined
NULL == "null"          \* qrDataUrl: null
ABSENT == "absent"      \* a key the JSON body does not carry

VARIABLES
  sessions,    \* sessions[t]: the registered session object of tenant t, or NoSession
  sessObj,     \* sessObj[c]: fields ready, qrDataUrl of the session object of client c
  adapters,    \* adapters[c]: tenant, phase, conn, readied of client c (the external adapter)
  tasks,       \* bag of suspended handler continuations
  rooms,       \* rooms[o]: the tenant channels socket o has joined
  inbox,       \* inbox[o]: the events socket o has received, in order
  pubLog,      \* pubLog[t]: the events emitted to room t, in order (history)
  dirs,        \* credential directories that exist on disk
  resp,        \* the last HTTP response written
  sendCalls,   \* sendCalls[c]: client.sendMessage calls issued on client c
  uncaught,    \* an event handler threw outside any try
  nInputs,     \* inputs accepted so far (bounded by MaxInputs)
  startCalls,  \* startCalls[t]: /start-session requests received for tenant t (history)
  reached,     \* reached[c]: statuses the handlers announced for session object c (history)
  qrRaised,    \* qrRaised[t]: qr payloads raised so far for tenant t (history)
  readyFresh   \* readyFresh[t]: ready was handled for t's session and no qr raised since (history)

vars == <<sessions, sessObj, adapters, tasks, rooms, inbox, pubLog, dirs, resp,
          sendCalls, uncaught, nInputs, startCalls, reached, qrRaised, readyFresh>>

\* ---- values ----
StatusEv(status) == <<"status", status, "">>
StatusDetailEv(status, detail) == <<"status", status, detail>>
QrEv(dataUrl) == <<"qr", dataUrl, "">>
ErrorEv(message) == <<"error", message, "">>
SentEv(type, filename) == <<"sent", type, filename>>

\* QRCode.toDataURL(qr): a PNG data URL that encodes the payload
ToDataURL(qr) == "data:image/png;base64," \o qr

Body(status, error, qr, deleted) ==
  [status |-> status, error |-> error, qr |-> qr, deleted |-> deleted]
Reply(op, t, http, body) == [op |-> op, t |-> t, http |-> http, body |-> body]
StatusBody(status) == Body(status, "", ABSENT, <<>>)
ErrorBody(error) == Body("", error, ABSENT, <<>>)

Task(kind, t, s, arg) == [kind |-> kind, t |-> t, s |-> s, arg |-> arg]
Spawn(task) == tasks (+) SetToBag({task})
Retire(task) == tasks (-) SetToBag({task})
Pending(kind) == {task \in BagToSet(tasks) : task.kind = kind}

Created == {c \in AdapterIds : adapters[c].phase # "none"}
NewClient == Cardinality(Created) + 1

\* an input is accepted only while the budget of the model lasts
Input == nInputs < MaxInputs /\ nInputs' = nInputs + 1

\* a broadcast that coalesces the events of one turn into the last of them
emitTo_Coalesces(sessionId, events) ==
  /\ inbox' = [o \in Observers |->
                 IF sessionId \in rooms[o] THEN Append(inbox[o], events[Len(events)])
                 ELSE inbox[o]]
  /\ pubLog' = [pubLog EXCEPT ![sessionId] = @ \o events]

\* io.to(sessionId).emit(...): every socket in the room receives the events, in order
emitTo(sessionId, events) ==
  /\ inbox' = [o \in Observers |->
                 IF sessionId \in rooms[o] THEN inbox[o] \o events ELSE inbox[o]]
  /\ pubLog' = [pubLog EXCEPT ![sessionId] = @ \o events]

getAuthDirsForSession(sessionId) ==
  << ".wwebjs_auth/session-" \o sessionId, ".wwebjs_auth/" \o sessionId >>

AllDirs == UNION {{getAuthDirsForSession(t)[1], getAuthDirsForSession(t)[2]} : t \in Tenants}

\* ---- initial state: empty table, no client, any leftover credential directories ----
Init ==
  /\ sessions = [t \in Tenants |-> NoSession]
  /\ sessObj = [c \in AdapterIds |-> [ready |-> FALSE, qrDataUrl |-> NULL]]
  /\ adapters = [c \in AdapterIds |-> [tenant |-> "", phase |-> "none", conn |-> FALSE,
                                      readied |-> FALSE]]
  /\ tasks = EmptyBag
  /\ rooms = [o \in Observers |-> {}]
  /\ inbox = [o \in Observers |-> <<>>]
  /\ pubLog = [t \in Tenants |-> <<>>]
  /\ dirs \in SUBSET AllDirs
  /\ resp = Reply("none", "", 0, StatusBody(""))
  /\ sendCalls = [c \in AdapterIds |-> 0]
  /\ uncaught = FALSE
  /\ nInputs = 0
  /\ startCalls = [t \in Tenants |-> 0]
  /\ reached = [c \in AdapterIds |-> {}]
  /\ qrRaised = [t \in Tenants |-> {}]
  /\ readyFresh = [t \in Tenants |-> FALSE]

\* ---- createSession and POST /start-session ----
createSession(sessionId) ==
  LET client == NewClient IN
  /\ client <= MaxAdapters
  /\ adapters' = [adapters EXCEPT ![client] =
                    [tenant |-> sessionId, phase |-> "live", conn |-> FALSE,
                     readied |-> FALSE]]
  /\ sessObj' = [sessObj EXCEPT ![client] = [ready |-> FALSE, qrDataUrl |-> NULL]]
  /\ sessions' = [sessions EXCEPT ![sessionId] = client]
  /\ reached' = [reached EXCEPT ![client] = {"STARTING"}]
  /\ readyFresh' = [readyFresh EXCEPT ![sessionId] = FALSE]

\* the status that /start-session reports for an existing session object
StartStatus(sess) ==
  IF sess.ready THEN "LOGGED_IN"
  ELSE IF sess.qrDataUrl # NULL THEN "WAITING_QR" ELSE "STARTING"

\* a start that does not look the id up first
StartSession_Recreates(sessionId) ==
  /\ Input
  /\ startCalls' = [startCalls EXCEPT ![sessionId] = @ + 1]
  /\ createSession(sessionId)
  /\ resp' = Reply("start-session", sessionId, 200, StatusBody("STARTING"))
  /\ UNCHANGED <<tasks, rooms, inbox, pubLog, dirs, sendCalls, uncaught, qrRaised>>

StartSession(sessionId) ==
  /\ Input
  /\ startCalls' = [startCalls EXCEPT ![sessionId] = @ + 1]
  /\ IF sessions[sessionId] = NoSession
     THEN /\ createSession(sessionId)
          /\ resp' = Reply("start-session", sessionId, 200, StatusBody("STARTING"))
     ELSE /\ resp' = Reply("start-session", sessionId, 200,
                           StatusBody(StartStatus(sessObj[sessions[sessionId]])))
          /\ UNCHANGED <<sessions, sessObj, adapters, reached, readyFresh>>
  /\ UNCHANGED <<tasks, rooms, inbox, pubLog, dirs, sendCalls, uncaught, qrRaised>>

\* ---- the event handlers createSession attaches to the client ----
\* client.on("qr"): the handler suspends at await QRCode.toDataURL(qr)
OnQr(client, qr) ==
  LET sessionId == adapters[client].tenant IN
  /\ adapters[client].phase = "live"
  /\ Input
  /\ tasks' = Spawn(Task("qr", sessionId, NoSession, qr))
  /\ qrRaised' = [qrRaised EXCEPT ![sessionId] = @ \cup {qr}]
  /\ readyFresh' = [readyFresh EXCEPT ![sessionId] = FALSE]
  /\ UNCHANGED <<startCalls, sessions, sessObj, adapters, rooms, inbox, pubLog, dirs, resp,
                 sendCalls, uncaught, reached>>

\* the rest of the qr handler; encoded = FALSE when toDataURL rejects.  A TypeError
\* on sessions[sessionId] being undefined is caught by the same try.
OnQrEncoded(task, encoded) ==
  LET sessionId == task.t
      sess == sessions[sessionId] IN
  /\ task.kind = "qr"
  /\ tasks' = Retire(task)
  /\ IF encoded /\ sess # NoSession
     THEN /\ sessObj' = [sessObj EXCEPT ![sess].qrDataUrl = ToDataURL(task.arg)]
          /\ emitTo(sessionId, <<QrEv(ToDataURL(task.arg)), StatusEv("WAITING_QR")>>)
          /\ reached' = [reached EXCEPT ![sess] = @ \cup {"WAITING_QR"}]
     ELSE /\ emitTo(sessionId, <<ErrorEv("QR generation failed")>>)
          /\ UNCHANGED <<sessObj, reached>>
  /\ UNCHANGED <<startCalls, sessions, adapters, rooms, dirs, resp, sendCalls, uncaught, nInputs,
                 qrRaised, readyFresh>>

OnAuthenticated(client) ==
  LET sessionId == adapters[client].tenant
      sess == sessions[sessionId] IN
  /\ adapters[client].phase = "live"
  /\ Input
  /\ emitTo(sessionId, <<StatusEv("AUTHENTICATED")>>)
  /\ reached' = IF sess = NoSession THEN reached
                ELSE [reached EXCEPT ![sess] = @ \cup {"AUTHENTICATED"}]
  /\ UNCHANGED <<startCalls, sessions, sessObj, adapters, tasks, rooms, dirs, resp, sendCalls,
                 uncaught, qrRaised, readyFresh>>

\* client.on("ready"): sessions[sessionId].ready = true throws when the entry is gone
OnReady(client) ==
  LET sessionId == adapters[client].tenant
      sess == sessions[sessionId] IN
  /\ adapters[client].phase = "live"
  /\ Input
  /\ adapters' = [adapters EXCEPT ![client].conn = TRUE, ![client].readied = TRUE]
  /\ IF sess = NoSession
     THEN /\ uncaught' = TRUE
          /\ UNCHANGED <<sessObj, inbox, pubLog, reached, readyFresh>>
     ELSE /\ sessObj' = [sessObj EXCEPT ![sess] = [ready |-> TRUE, qrDataUrl |-> NULL]]
          /\ emitTo(sessionId, <<StatusEv("LOGGED_IN")>>)
          /\ reached' = [reached EXCEPT ![sess] = @ \cup {"LOGGED_IN"}]
          /\ readyFresh' = [readyFresh EXCEPT ![sessionId] = TRUE]
          /\ UNCHANGED uncaught
  /\ UNCHANGED <<startCalls, sessions, tasks, rooms, dirs, resp, sendCalls, qrRaised>>

OnAuthFailure(client) ==
  LET sessionId == adapters[client].tenant
      sess == sessions[sessionId] IN
  /\ adapters[client].phase = "live"
  /\ Input
  /\ adapters' = [adapters EXCEPT ![client].conn = FALSE]
  /\ IF sess = NoSession
     THEN /\ uncaught' = TRUE
          /\ UNCHANGED <<sessObj, inbox, pubLog, reached>>
     ELSE /\ sessObj' = [sessObj EXCEPT ![sess].ready = FALSE]
          /\ emitTo(sessionId, <<StatusDetailEv("AUTH_FAILURE", "msg")>>)
          /\ reached' = [reached EXCEPT ![sess] = @ \cup {"AUTH_FAILURE"}]
          /\ UNCHANGED uncaught
  /\ UNCHANGED <<startCalls, sessions, tasks, rooms, dirs, resp, sendCalls, qrRaised, readyFresh>>

\* a disconnected handler that empties the whole table
OnDisconnected_ClearsTable(client) ==
  LET sessionId == adapters[client].tenant IN
  /\ adapters[client].phase = "live"
  /\ Input
  /\ adapters' = [adapters EXCEPT ![client].phase = "disconnected", ![client].conn = FALSE]
  /\ emitTo(sessionId, <<StatusDetailEv("DISCONNECTED", "reason")>>)
  /\ sessions' = [t \in Tenants |-> NoSession]
  /\ UNCHANGED <<startCalls, sessObj, tasks, rooms, dirs, resp, sendCalls, uncaught, reached,
                 qrRaised, readyFresh>>

\* a disconnected handler that leaves the entry in the table
OnDisconnected_KeepsEntry(client) ==
  LET sessionId == adapters[client].tenant IN
  /\ adapters[client].phase = "live"
  /\ Input
  /\ adapters' = [adapters EXCEPT ![client].phase = "disconnected", ![client].conn = FALSE]
  /\ emitTo(sessionId, <<StatusDetailEv("DISCONNECTED", "reason")>>)
  /\ UNCHANGED <<startCalls, sessions, sessObj, tasks, rooms, dirs, resp, sendCalls, uncaught,
                 reached, qrRaised, readyFresh>>

OnDisconnected(client) ==
  LET sessionId == adapters[client].tenant IN
  /\ adapters[client].phase = "live"
  /\ Input
  /\ adapters' = [adapters EXCEPT ![client].phase = "disconnected", ![client].conn = FALSE]
  /\ emitTo(sessionId, <<StatusDetailEv("DISCONNECTED", "reason")>>)
  /\ sessions' = [sessions EXCEPT ![sessionId] = NoSession]
  /\ UNCHANGED <<startCalls, sessObj, tasks, rooms, dirs, resp, sendCalls, uncaught, reached,
                 qrRaised, readyFresh>>

\* ---- the adapter's own behaviour, seen through getState and its credential store ----
\* the connection drops without a disconnected event
SilentDrop(client) ==
  /\ adapters[client].phase = "live"
  /\ adapters[client].conn
  /\ Input
  /\ adapters' = [adapters EXCEPT ![client].conn = FALSE]
  /\ UNCHANGED <<startCalls, sessions, sessObj, tasks, rooms, inbox, pubLog, dirs, resp, sendCalls,
                 uncaught, reached, qrRaised, readyFresh>>

\* LocalAuth({ clientId: sessionId }) writes .wwebjs_auth/session-<clientId>
StoreCredentials(client) ==
  LET dir == getAuthDirsForSession(adapters[client].tenant)[1] IN
  /\ adapters[client].phase = "live"
  /\ dir \notin dirs
  /\ Input
  /\ dirs' = dirs \cup {dir}
  /\ UNCHANGED <<startCalls, sessions, sessObj, adapters, tasks, rooms, inbox, pubLog, resp,
                 sendCalls, uncaught, reached, qrRaised, readyFresh>>

\* ---- socket.on("join-session") ----
\* the status replayed to a joining socket
JoinStatus(sess) ==
  IF sess = NoSession THEN "NOT_STARTED"
  ELSE IF sessObj[sess].ready THEN "LOGGED_IN"
  ELSE IF sessObj[sess].qrDataUrl # NULL THEN "WAITING_QR" ELSE "STARTING"

\* a replay that leaves the stored QR out
JoinReplay_StatusOnly(sess) ==
  <<StatusEv(JoinStatus(sess))>>

\* socket.emit(...) reaches the joining socket only
JoinReplay(sess) ==
  <<StatusEv(JoinStatus(sess))>>
    \o (IF sess # NoSession /\ sessObj[sess].qrDataUrl # NULL
        THEN <<QrEv(sessObj[sess].qrDataUrl)>> ELSE <<>>)

JoinSession(socket, sessionId) ==
  /\ Input
  /\ rooms' = [rooms EXCEPT ![socket] = @ \cup {sessionId}]
  /\ inbox' = [inbox EXCEPT ![socket] = @ \o JoinReplay(sessions[sessionId])]
  /\ UNCHANGED <<startCalls, sessions, sessObj, adapters, tasks, pubLog, dirs, resp, sendCalls,
                 uncaught, reached, qrRaised, readyFresh>>

\* ---- ensureConnected ----
\* what await sess.client.getState() can produce: the adapter's ground truth, or a throw
GetStateOutcomes(client) ==
  {"THROW"} \cup (IF adapters[client].conn THEN {"CONNECTED"} ELSE {"OTHER"})

\* a probe that does not tell an unknown id from a dropped connection
ensureConnectedEntry_NotConnected(sessionId) ==
  IF sessions[sessionId] = NoSession
  THEN [ok |-> FALSE, reason |-> "NOT_CONNECTED", sess |-> NoSession]
  ELSE [ok |-> FALSE, reason |-> "PENDING", sess |-> sessions[sessionId]]

\* the synchronous head of ensureConnected: the lookup and the NO_SESSION return
ensureConnectedEntry(sessionId) ==
  IF sessions[sessionId] = NoSession
  THEN [ok |-> FALSE, reason |-> "NO_SESSION", sess |-> NoSession]
  ELSE [ok |-> FALSE, reason |-> "PENDING", sess |-> sessions[sessionId]]

\* a probe that takes every state getState returns for a connection
ensureConnected_AnyState(state) ==
  IF state # "THROW" THEN [ok |-> TRUE, reason |-> NULL]
  ELSE [ok |-> FALSE, reason |-> "NOT_CONNECTED"]

\* the value ensureConnected returns once getState has settled with state
ensureConnected(state) ==
  IF state = "CONNECTED" THEN [ok |-> TRUE, reason |-> NULL]
  ELSE [ok |-> FALSE, reason |-> "NOT_CONNECTED"]

\* sess.ready = connected (false in the catch), written to the object looked up at entry
WriteReady(sess, state) ==
  sessObj' = [sessObj EXCEPT ![sess].ready = (state = "CONNECTED")]

\* ---- GET /session-status/:sessionId ----
\* (history) whether the client of sess had raised auth_failure when a request arrived
ArrivedAfter(sess) ==
  IF "AUTH_FAILURE" \in reached[sess] THEN "after-auth-failure" ELSE ""

SessionStatus(sessionId) ==
  LET entry == ensureConnectedEntry(sessionId) IN
  /\ Input
  /\ IF sessions[sessionId] = NoSession
     THEN /\ resp' = Reply("session-status", sessionId, 200, StatusBody("NOT_STARTED"))
          /\ UNCHANGED tasks
     ELSE /\ tasks' = Spawn(Task("session-status", sessionId, entry.sess,
                                 ArrivedAfter(entry.sess)))
          /\ UNCHANGED resp
  /\ UNCHANGED <<startCalls, sessions, sessObj, adapters, rooms, inbox, pubLog, dirs, sendCalls,
                 uncaught, reached, qrRaised, readyFresh>>

\* a reply without the QR fallback
StatusReply_NoArtifact(sess, state) ==
  IF ensureConnected(state).ok THEN StatusBody("LOGGED_IN")
  ELSE Body("NOT_CONNECTED", "", NULL, <<>>)

StatusReply(sess, state) ==
  IF ensureConnected(state).ok THEN StatusBody("LOGGED_IN")
  ELSE Body(IF sessObj[sess].qrDataUrl # NULL THEN "WAITING_QR" ELSE "NOT_CONNECTED",
            "", sessObj[sess].qrDataUrl, <<>>)

SessionStatusDone(task, state) ==
  /\ task.kind = "session-status"
  /\ state \in GetStateOutcomes(task.s)
  /\ tasks' = Retire(task)
  /\ WriteReady(task.s, state)
  /\ resp' = Reply("session-status", task.t, 200, StatusReply(task.s, state))
  /\ UNCHANGED <<startCalls, sessions, adapters, rooms, inbox, pubLog, dirs, sendCalls, uncaught,
                 nInputs, reached, qrRaised, readyFresh>>

\* ---- POST /send-message ----
SendMessage(sessionId) ==
  LET entry == ensureConnectedEntry(sessionId) IN
  /\ Input
  /\ IF sessions[sessionId] = NoSession
     THEN /\ resp' = Reply("send-message", sessionId, 404, ErrorBody("Session not found"))
          /\ UNCHANGED tasks
     ELSE /\ tasks' = Spawn(Task("send-probe", sessionId, entry.sess, ""))
          /\ UNCHANGED resp
  /\ UNCHANGED <<startCalls, sessions, sessObj, adapters, rooms, inbox, pubLog, dirs, sendCalls,
                 uncaught, reached, qrRaised, readyFresh>>

\* a send that goes ahead whatever the probe said
SendMessageProbed_IgnoresProbe(task, state) ==
  /\ task.kind = "send-probe"
  /\ state \in GetStateOutcomes(task.s)
  /\ WriteReady(task.s, state)
  /\ sendCalls' = [sendCalls EXCEPT ![task.s] = @ + 1]
  /\ tasks' = Retire(task) (+) SetToBag({Task("send-call", task.t, task.s, "")})
  /\ UNCHANGED <<startCalls, resp, sessions, adapters, rooms, inbox, pubLog, dirs, uncaught,
                 nInputs, reached, qrRaised, readyFresh>>

\* after await ensureConnected: reject, or call sess.client.sendMessage and suspend
SendMessageProbed(task, state) ==
  /\ task.kind = "send-probe"
  /\ state \in GetStateOutcomes(task.s)
  /\ WriteReady(task.s, state)
  /\ IF ensureConnected(state).ok
     THEN /\ sendCalls' = [sendCalls EXCEPT ![task.s] = @ + 1]
          /\ tasks' = Retire(task) (+) SetToBag({Task("send-call", task.t, task.s, "")})
          /\ UNCHANGED resp
     ELSE /\ resp' = Reply("send-message", task.t, 400, ErrorBody("Session not connected"))
          /\ tasks' = Retire(task)
          /\ UNCHANGED sendCalls
  /\ UNCHANGED <<startCalls, sessions, adapters, rooms, inbox, pubLog, dirs, uncaught, nInputs,
                 reached, qrRaised, readyFresh>>

\* sendMessage settled: sent = FALSE when it rejected
SendMessageDone(task, sent) ==
  /\ task.kind = "send-call"
  /\ tasks' = Retire(task)
  /\ IF sent
     THEN /\ emitTo(task.t, <<SentEv("text", "")>>)
          /\ resp' = Reply("send-message", task.t, 200, StatusBody("SENT"))
     ELSE /\ resp' = Reply("send-message", task.t, 500, ErrorBody("Failed to send message"))
          /\ UNCHANGED <<inbox, pubLog>>
  /\ UNCHANGED <<startCalls, sessions, sessObj, adapters, rooms, dirs, sendCalls, uncaught, nInputs,
                 reached, qrRaised, readyFresh>>

\* ---- POST /send-media ----
\* the upload is read from and moved on the local disk; those calls are taken to
\* succeed except the final rename, whose failure is the parameter moved = FALSE
SendMedia(sessionId) ==
  LET entry == ensureConnectedEntry(sessionId) IN
  /\ Input
  /\ IF sessions[sessionId] = NoSession
     THEN /\ resp' = Reply("send-media", sessionId, 404, ErrorBody("Session not found"))
          /\ UNCHANGED tasks
     ELSE /\ tasks' = Spawn(Task("media-probe", sessionId, entry.sess, ""))
          /\ UNCHANGED resp
  /\ UNCHANGED <<startCalls, sessions, sessObj, adapters, rooms, inbox, pubLog, dirs, sendCalls,
                 uncaught, reached, qrRaised, readyFresh>>

\* after await ensureConnected: reject, or call sess.client.sendMessage and suspend
SendMediaProbed(task, state) ==
  /\ task.kind = "media-probe"
  /\ state \in GetStateOutcomes(task.s)
  /\ WriteReady(task.s, state)
  /\ IF ensureConnected(state).ok
     THEN /\ sendCalls' = [sendCalls EXCEPT ![task.s] = @ + 1]
          /\ tasks' = Retire(task) (+) SetToBag({Task("media-call", task.t, task.s, "")})
          /\ UNCHANGED resp
     ELSE /\ resp' = Reply("send-media", task.t, 400, ErrorBody("Session not connected"))
          /\ tasks' = Retire(task)
          /\ UNCHANGED sendCalls
  /\ UNCHANGED <<startCalls, sessions, adapters, rooms, inbox, pubLog, dirs, uncaught, nInputs,
                 reached, qrRaised, readyFresh>>

\* sendMessage settled: the sent event goes out before the upload is moved
SendMediaDone(task, sent, moved) ==
  /\ task.kind = "media-call"
  /\ tasks' = Retire(task)
  /\ IF sent
     THEN /\ emitTo(task.t, <<SentEv("media", "file")>>)
          /\ resp' = IF moved THEN Reply("send-media", task.t, 200, StatusBody("SENT"))
                     ELSE Reply("send-media", task.t, 500, ErrorBody("Failed to send media"))
     ELSE /\ resp' = Reply("send-media", task.t, 500, ErrorBody("Failed to send media"))
          /\ UNCHANGED <<inbox, pubLog>>
  /\ UNCHANGED <<startCalls, sessions, sessObj, adapters, rooms, dirs, sendCalls, uncaught, nInputs,
                 reached, qrRaised, readyFresh>>

\* ---- POST /send-media, second variant of the handler ----
\* no ensureConnected: the cached ready flag decides, and sendMessage is called in
\* the same turn
SendMediaCached(sessionId) ==
  LET sess == sessions[sessionId] IN
  /\ Input
  /\ IF sess = NoSession
     THEN /\ resp' = Reply("send-media", sessionId, 400, ErrorBody("Session not found"))
          /\ UNCHANGED <<tasks, sendCalls>>
     ELSE IF ~sessObj[sess].ready
     THEN /\ resp' = Reply("send-media", sessionId, 400, ErrorBody("Session not ready"))
          /\ UNCHANGED <<tasks, sendCalls>>
     ELSE /\ sendCalls' = [sendCalls EXCEPT ![sess] = @ + 1]
          /\ tasks' = Spawn(Task("media-call-cached", sessionId, sess, ""))
          /\ UNCHANGED resp
  /\ UNCHANGED <<startCalls, sessions, sessObj, adapters, rooms, inbox, pubLog, dirs, uncaught,
                 reached, qrRaised, readyFresh>>

\* sendMessage settled; this variant emits nothing
SendMediaCachedDone(task, sent) ==
  /\ task.kind = "media-call-cached"
  /\ tasks' = Retire(task)
  /\ resp' = IF sent
             THEN Reply("send-media", task.t, 200, StatusBody("Media sent successfully"))
             ELSE Reply("send-media", task.t, 500, ErrorBody("Failed to send media"))
  /\ UNCHANGED <<startCalls, sessions, sessObj, adapters, rooms, inbox, pubLog, dirs, sendCalls,
                 uncaught, nInputs, reached, qrRaised, readyFresh>>

\* ---- client.logout() as the adapter performs it ----
\* loggedOut = FALSE when the call throws; a completed logout ends a live client
AfterLogout(client, loggedOut) ==
  IF loggedOut /\ adapters[client].phase = "live"
  THEN [adapters EXCEPT ![client].phase = "loggedout", ![client].conn = FALSE]
  ELSE adapters

\* the adapter carries the logout out while the handler that awaits it is still
\* suspended: the promise settles, and the continuation runs, only afterwards
LogoutPerformed(task) ==
  /\ task.kind \in {"logout", "force-reset"}
  /\ adapters[task.s].phase = "live"
  /\ adapters' = AfterLogout(task.s, TRUE)
  /\ UNCHANGED <<startCalls, sessions, sessObj, tasks, rooms, inbox, pubLog, dirs, resp,
                 sendCalls, uncaught, nInputs, reached, qrRaised, readyFresh>>

\* how await client.logout() can settle: it returns only when the client is no
\* longer live, and it can throw at any time
LogoutSettles(task, loggedOut) ==
  loggedOut => adapters[task.s].phase # "live"

\* ---- POST /logout-session ----
LogoutSession(sessionId) ==
  /\ Input
  /\ IF sessions[sessionId] = NoSession
     THEN /\ resp' = Reply("logout-session", sessionId, 404, ErrorBody("Session not found"))
          /\ UNCHANGED tasks
     ELSE /\ tasks' = Spawn(Task("logout", sessionId, sessions[sessionId], ""))
          /\ UNCHANGED resp
  /\ UNCHANGED <<startCalls, sessions, sessObj, adapters, rooms, inbox, pubLog, dirs, sendCalls,
                 uncaught, reached, qrRaised, readyFresh>>

\* a logout whose delete, emit and response sit inside the try, after the call
LogoutSessionDone_KeepsOnThrow(task, loggedOut) ==
  /\ task.kind = "logout"
  /\ LogoutSettles(task, loggedOut)
  /\ tasks' = Retire(task)
  /\ IF loggedOut
     THEN /\ sessions' = [sessions EXCEPT ![task.t] = NoSession]
          /\ emitTo(task.t, <<StatusEv("LOGGED_OUT")>>)
          /\ resp' = Reply("logout-session", task.t, 200, StatusBody("LOGGED_OUT"))
     ELSE /\ resp' = Reply("logout-session", task.t, 500, ErrorBody("Logout failed"))
          /\ UNCHANGED <<sessions, inbox, pubLog>>
  /\ UNCHANGED <<startCalls, sessObj, adapters, rooms, dirs, sendCalls, uncaught, nInputs,
                 reached, qrRaised, readyFresh>>

\* a logout without the try around the call: a throw ends the handler before the
\* delete, the emit and the response
LogoutSessionDone_Rethrows(task, loggedOut) ==
  /\ task.kind = "logout"
  /\ LogoutSettles(task, loggedOut)
  /\ tasks' = Retire(task)
  /\ IF loggedOut
     THEN /\ sessions' = [sessions EXCEPT ![task.t] = NoSession]
          /\ emitTo(task.t, <<StatusEv("LOGGED_OUT")>>)
          /\ resp' = Reply("logout-session", task.t, 200, StatusBody("LOGGED_OUT"))
     ELSE UNCHANGED <<sessions, inbox, pubLog, resp>>
  /\ UNCHANGED <<startCalls, sessObj, adapters, rooms, dirs, sendCalls, uncaught, nInputs,
                 reached, qrRaised, readyFresh>>

\* after await sess.client.logout() (a throw is swallowed): delete, emit, respond
LogoutSessionDone(task, loggedOut) ==
  /\ task.kind = "logout"
  /\ LogoutSettles(task, loggedOut)
  /\ tasks' = Retire(task)
  /\ sessions' = [sessions EXCEPT ![task.t] = NoSession]
  /\ emitTo(task.t, <<StatusEv("LOGGED_OUT")>>)
  /\ resp' = Reply("logout-session", task.t, 200, StatusBody("LOGGED_OUT"))
  /\ UNCHANGED <<startCalls, sessObj, adapters, rooms, dirs, sendCalls, uncaught, nInputs,
                 reached, qrRaised, readyFresh>>

\* ---- the credential directories ----
\* the loop over getAuthDirsForSession: the directories that exist, in order
ExistingAuthDirs(sessionId) ==
  SelectSeq(getAuthDirsForSession(sessionId), LAMBDA d : d \in dirs)

RemoveAuthDirs(sessionId) ==
  dirs' = dirs \ {ExistingAuthDirs(sessionId)[i] : i \in 1..Len(ExistingAuthDirs(sessionId))}

\* ---- POST /admin/delete-cache ----
DeleteCache(sessionId) ==
  /\ Input
  /\ RemoveAuthDirs(sessionId)
  /\ resp' = Reply("delete-cache", sessionId, 200,
                   Body("CACHE_DELETED", "", ABSENT, ExistingAuthDirs(sessionId)))
  /\ UNCHANGED <<startCalls, sessions, sessObj, adapters, tasks, rooms, inbox, pubLog, sendCalls,
                 uncaught, reached, qrRaised, readyFresh>>

\* ---- POST /admin/force-reset ----
ForceResetReply(sessionId) ==
  Reply("force-reset", sessionId, 200,
        Body("FORCE_RESET_DONE", "", ABSENT, ExistingAuthDirs(sessionId)))

\* with a registered session the handler suspends at await client.logout();
\* without one it runs to its response in one go
ForceReset(sessionId) ==
  /\ Input
  /\ IF sessions[sessionId] # NoSession
     THEN /\ tasks' = Spawn(Task("force-reset", sessionId, sessions[sessionId], ""))
          /\ UNCHANGED <<dirs, resp>>
     ELSE /\ RemoveAuthDirs(sessionId)
          /\ resp' = ForceResetReply(sessionId)
          /\ UNCHANGED tasks
  /\ UNCHANGED <<startCalls, sessions, sessObj, adapters, rooms, inbox, pubLog, sendCalls, uncaught,
                 reached, qrRaised, readyFresh>>

\* a reset whose delete sits inside the try, after the logout call
ForceResetDone_KeepsOnThrow(task, loggedOut) ==
  /\ task.kind = "force-reset"
  /\ LogoutSettles(task, loggedOut)
  /\ tasks' = Retire(task)
  /\ sessions' = IF loggedOut THEN [sessions EXCEPT ![task.t] = NoSession] ELSE sessions
  /\ RemoveAuthDirs(task.t)
  /\ resp' = ForceResetReply(task.t)
  /\ UNCHANGED <<startCalls, sessObj, adapters, rooms, inbox, pubLog, sendCalls, uncaught,
                 nInputs, reached, qrRaised, readyFresh>>

\* after the awaited logout (a throw is swallowed): delete the entry, then the directories
ForceResetDone(task, loggedOut) ==
  /\ task.kind = "force-reset"
  /\ LogoutSettles(task, loggedOut)
  /\ tasks' = Retire(task)
  /\ sessions' = [sessions EXCEPT ![task.t] = NoSession]
  /\ RemoveAuthDirs(task.t)
  /\ resp' = ForceResetReply(task.t)
  /\ UNCHANGED <<startCalls, sessObj, adapters, rooms, inbox, pubLog, sendCalls, uncaught,
                 nInputs, reached, qrRaised, readyFresh>>

Next ==
  \/ \E t \in Tenants : SessionStatus(t)
  \/ \E task \in BagToSet(tasks), state \in {"CONNECTED", "OTHER", "THROW"} :
       SessionStatusDone(task, state)
  \/ \E o \in Observers, t \in Tenants : JoinSession(o, t)
  \/ \E t \in Tenants : SendMessage(t)
  \/ \E task \in BagToSet(tasks), state \in {"CONNECTED", "OTHER", "THROW"} :
       SendMessageProbed(task, state)
  \/ \E task \in BagToSet(tasks), sent \in BOOLEAN : SendMessageDone(task, sent)
  \/ \E t \in Tenants : LogoutSession(t)
  \/ \E task \in BagToSet(tasks) : LogoutPerformed(task)
  \/ \E task \in BagToSet(tasks), loggedOut \in BOOLEAN : LogoutSessionDone(task, loggedOut)
  \/ \E t \in Tenants : DeleteCache(t)
  \/ \E t \in Tenants : ForceReset(t)
  \/ \E task \in BagToSet(tasks), loggedOut \in BOOLEAN : ForceResetDone(task, loggedOut)
  \/ \E t \in Tenants : StartSession(t)
  \/ \E c \in AdapterIds, qr \in QrPayloads : OnQr(c, qr)
  \/ \E task \in BagToSet(tasks), encoded \in BOOLEAN : OnQrEncoded(task, encoded)
  \/ \E c \in AdapterIds : OnAuthenticated(c)
  \/ \E c \in AdapterIds : OnReady(c)
  \/ \E c \in AdapterIds : OnAuthFailure(c)
  \/ \E c \in AdapterIds : OnDisconnected(c)
  \/ \E c \in AdapterIds : SilentDrop(c)
  \/ \E c \in AdapterIds : StoreCredentials(c)

Spec == Init /\ [][Next]_vars

\* the same server with the media upload route, in both variants of its handler
NextMedia ==
  \/ Next
  \/ \E t \in Tenants : SendMedia(t)
  \/ \E task \in BagToSet(tasks), state \in {"CONNECTED", "OTHER", "THROW"} :
       SendMediaProbed(task, state)
  \/ \E task \in BagToSet(tasks), sent \in BOOLEAN, moved \in BOOLEAN :
       SendMediaDone(task, sent, moved)
  \/ \E t \in Tenants : SendMediaCached(t)
  \/ \E task \in BagToSet(tasks), sent \in BOOLEAN : SendMediaCachedDone(task, sent)

SpecMedia == Init /\ [][NextMedia]_vars

(***************************************************************************)
(* Properties                                                              *)
(***************************************************************************)
Live(c) == adapters[c].phase = "live"
LiveAdaptersOf(t) == {c \in AdapterIds : adapters[c].tenant = t /\ Live(c)}
GetStateResults == {"CONNECTED", "OTHER", "THROW"}

\* C1: a start for an unknown tenant id constructs exactly one client, registers a
\* fresh session object for it and answers STARTING; a start for a registered id
\* constructs nothing, leaves the table and the session object as they are and
\* answers the status the session has (the one a joining socket is told), which is
\* STARTING as long as no handler has announced anything for the session.
C1_StartTwiceOneAdapter ==
  [][\A t \in Tenants : StartSession(t) =>
       IF sessions[t] = NoSession
       THEN /\ \E c \in AdapterIds :
                 /\ adapters[c].phase = "none"
                 /\ adapters'[c].phase = "live" /\ adapters'[c].tenant = t
                 /\ \A d \in AdapterIds \ {c} : adapters'[d] = adapters[d]
                 /\ sessions' = [sessions EXCEPT ![t] = c]
                 /\ sessObj'[c] = [ready |-> FALSE, qrDataUrl |-> NULL]
            /\ resp' = Reply("start-session", t, 200, StatusBody("STARTING"))
       ELSE /\ adapters' = adapters /\ sessions' = sessions /\ sessObj' = sessObj
            /\ resp' = Reply("start-session", t, 200, StatusBody(JoinStatus(sessions[t])))
            /\ (reached[sessions[t]] = {"STARTING"} => resp'.body.status = "STARTING")
  ]_vars

\* two starts in succession for one id: one client, and STARTING again
C1_Witness ==
  \E t \in Tenants :
    /\ nInputs = 2 /\ startCalls[t] = 2
    /\ Cardinality(Created) = 1
    /\ resp = Reply("start-session", t, 200, StatusBody("STARTING"))

\* C2: for every tenant id at most one client is live, that is, constructed and
\* neither disconnected nor logged out by a completed logout.
C2_AtMostOneLiveAdapter ==
  \A t \in Tenants : Cardinality(LiveAdaptersOf(t)) <= 1

\* C3: when the client of a logout in progress has raised disconnected (its handler
\* published DISCONNECTED and removed the entry), the completion of that logout
\* removes nothing and sends the tenant's observers no second terminal status.
C3_OneTerminalNotification ==
  [][\A task \in BagToSet(tasks), loggedOut \in BOOLEAN :
       (LogoutSessionDone(task, loggedOut) /\ adapters[task.s].phase = "disconnected")
         => /\ sessions' = sessions
            /\ \A o \in Observers : task.t \in rooms[o] => inbox'[o] = inbox[o]
  ]_vars

\* C4: for a tenant id that no start was ever called for, no session is registered
\* and no client exists, ensureConnected answers not-ok with NO_SESSION, and a
\* status query answers NOT_STARTED and creates nothing.
C4_NeverStarted ==
  /\ [](\A t \in Tenants : startCalls[t] = 0 =>
          /\ sessions[t] = NoSession
          /\ \A c \in Created : adapters[c].tenant # t
          /\ ensureConnectedEntry(t).ok = FALSE
          /\ ensureConnectedEntry(t).reason = "NO_SESSION")
  /\ [][\A t \in Tenants : (startCalls[t] = 0 /\ SessionStatus(t)) =>
          /\ resp' = Reply("session-status", t, 200, StatusBody("NOT_STARTED"))
          /\ UNCHANGED <<sessions, sessObj, adapters, tasks>>
     ]_vars

\* a status query answered NOT_STARTED for an id never started, beside a started one
C4_Witness ==
  \E t \in Tenants, u \in Tenants :
    /\ startCalls[t] = 0 /\ startCalls[u] > 0
    /\ resp = Reply("session-status", t, 200, StatusBody("NOT_STARTED"))

\* C5: no registered session is both marked ready and holding a QR data URL.
C5_ArtifactOnlyWhileAwaiting ==
  \A t \in Tenants :
    sessions[t] # NoSession =>
      ~(sessObj[sessions[t]].ready /\ sessObj[sessions[t]].qrDataUrl # NULL)

\* C6: once ready has been handled for a tenant's session, and until a qr event is
\* raised for the tenant after it, the session holds no QR data URL.
C6_ReadyClearsArtifact ==
  \A t \in Tenants :
    (sessions[t] # NoSession /\ readyFresh[t]) => sessObj[sessions[t]].qrDataUrl = NULL

\* C7: a join is answered at once with a status, NOT_STARTED when no session is
\* registered; for a session that WAITING_QR was announced for and LOGGED_IN was
\* not, the same join is answered with WAITING_QR followed by the stored QR, which
\* encodes a payload raised for the tenant.
C7_JoinReplay ==
  [][\A o \in Observers, t \in Tenants : JoinSession(o, t) =>
       LET sess == sessions[t] IN
       /\ Len(inbox'[o]) > Len(inbox[o])
       /\ inbox'[o][Len(inbox[o]) + 1][1] = "status"
       /\ sess = NoSession => inbox'[o] = inbox[o] \o <<StatusEv("NOT_STARTED")>>
       /\ (sess # NoSession /\ "WAITING_QR" \in reached[sess]
                             /\ "LOGGED_IN" \notin reached[sess]) =>
            /\ \E qr \in qrRaised[t] : sessObj[sess].qrDataUrl = ToDataURL(qr)
            /\ inbox'[o] = inbox[o] \o <<StatusEv("WAITING_QR"),
                                          QrEv(sessObj[sess].qrDataUrl)>>
  ]_vars

\* a socket that joined after the QR was stored was told WAITING_QR and the QR
C7_Witness ==
  \E o \in Observers, t \in Tenants :
    /\ sessions[t] # NoSession
    /\ reached[sessions[t]] = {"STARTING", "WAITING_QR"}
    /\ inbox[o] = <<StatusEv("WAITING_QR"), QrEv(ToDataURL("XYZ"))>>

\* C8: a status query for a session that is still registered when the query
\* completes, that WAITING_QR was announced for and LOGGED_IN was not, the tenant's
\* only qr payload being qr, answers WAITING_QR with the data URL of qr; a status query for a session that LOGGED_IN was announced for, whose
\* client is still connected and answers getState, answers LOGGED_IN with no qr key.
C8_StatusScenario ==
  [][\A task \in BagToSet(tasks), state \in GetStateResults :
       SessionStatusDone(task, state) =>
         /\ \A qr \in QrPayloads :
              (sessions[task.t] = task.s /\ "WAITING_QR" \in reached[task.s]
                 /\ "LOGGED_IN" \notin reached[task.s] /\ qrRaised[task.t] = {qr}) =>
                resp' = Reply("session-status", task.t, 200,
                              Body("WAITING_QR", "", ToDataURL(qr), <<>>))
         /\ ("LOGGED_IN" \in reached[task.s] /\ adapters[task.s].conn /\ state # "THROW") =>
                resp' = Reply("session-status", task.t, 200, StatusBody("LOGGED_IN"))
  ]_vars

\* start, qr, ready, then a status query answered LOGGED_IN
C8_Witness ==
  \E t \in Tenants :
    /\ sessions[t] # NoSession
    /\ reached[sessions[t]] = {"STARTING", "WAITING_QR", "LOGGED_IN"}
    /\ resp = Reply("session-status", t, 200, StatusBody("LOGGED_IN"))

\* C9: a send-message for an id with no session answers 404 "Session not found",
\* suspends nothing and calls no client; a send-message whose probe settles while
\* the session's client has not raised ready answers 400 "Session not connected"
\* and calls no client.
C9_SendErrors ==
  [][/\ \A t \in Tenants : (SendMessage(t) /\ sessions[t] = NoSession) =>
           /\ resp' = Reply("send-message", t, 404, ErrorBody("Session not found"))
           /\ UNCHANGED <<tasks, sendCalls>>
     /\ \A task \in BagToSet(tasks), state \in GetStateResults :
           (SendMessageProbed(task, state) /\ ~adapters[task.s].readied) =>
             /\ resp' = Reply("send-message", task.t, 400, ErrorBody("Session not connected"))
             /\ resp'.body.error # "Session not found"
             /\ UNCHANGED sendCalls
             /\ Pending("send-call") = {} => \A tk \in BagToSet(tasks') : tk.kind # "send-call"
  ]_vars

\* a send after start and before ready was refused as not connected
C9_Witness ==
  \E t \in Tenants :
    /\ sessions[t] # NoSession
    /\ ~adapters[sessions[t]].readied
    /\ \A c \in AdapterIds : sendCalls[c] = 0
    /\ resp = Reply("send-message", t, 400, ErrorBody("Session not connected"))

C11_Logout ==
  [][/\ \A t \in Tenants : LogoutSession(t) =>
          IF sessions[t] = NoSession
          THEN /\ resp' = Reply("logout-session", t, 404, ErrorBody("Session not found"))
               /\ UNCHANGED <<sessions, adapters, tasks, inbox, pubLog>>
          ELSE /\ CopiesIn(Task("logout", t, sessions[t], ""), tasks')
                    = CopiesIn(Task("logout", t, sessions[t], ""), tasks) + 1
               /\ adapters[sessions[t]].tenant = t
     /\ \A task \in BagToSet(tasks), loggedOut \in BOOLEAN :
          LogoutSessionDone(task, loggedOut) =>
            /\ sessions'[task.t] = NoSession
            /\ pubLog'[task.t] = Append(pubLog[task.t], StatusEv("LOGGED_OUT"))
            /\ \A o \in Observers :
                 task.t \in rooms[o] => inbox'[o] = Append(inbox[o], StatusEv("LOGGED_OUT"))
            /\ resp' = Reply("logout-session", task.t, 200, StatusBody("LOGGED_OUT"))
  ]_vars

\* a logout whose client.logout() threw: the client still runs, the entry is gone,
\* the socket in the room was told LOGGED_OUT
C11_Witness ==
  \E t \in Tenants, o \in Observers :
    /\ startCalls[t] = 1 /\ sessions[t] = NoSession
    /\ \E c \in AdapterIds : adapters[c].tenant = t /\ adapters[c].phase = "live"
    /\ inbox[o] = <<StatusEv("NOT_STARTED"), StatusEv("LOGGED_OUT")>>
    /\ resp = Reply("logout-session", t, 200, StatusBody("LOGGED_OUT"))

\* C12: the probe of a registered session raises nothing; when getState returns,
\* the ready flag of the probed session becomes (state = CONNECTED) and the probe
\* reports ok exactly then; when getState throws, the flag becomes false and the
\* probe reports NOT_CONNECTED.  The caller answers LOGGED_IN, or goes on to send,
\* exactly when the probe reported ok.
C12_ProbeNeverRaises ==
  [][\A task \in BagToSet(tasks), state \in GetStateResults :
       (SessionStatusDone(task, state) \/ SendMessageProbed(task, state)) =>
         /\ uncaught' = uncaught
         /\ sessObj'[task.s].ready = (state = "CONNECTED")
         /\ ensureConnected(state).ok = (state = "CONNECTED")
         /\ state # "CONNECTED" => ensureConnected(state).reason = "NOT_CONNECTED"
         /\ state = "THROW" => ~sessObj'[task.s].ready
         /\ (state = "CONNECTED") <=>
              \/ SessionStatusDone(task, state) /\ resp'.body.status = "LOGGED_IN"
              \/ SendMessageProbed(task, state) /\ sendCalls'[task.s] = sendCalls[task.s] + 1
  ]_vars

\* a status query whose getState threw on a connected, logged-in session: the
\* flag was cleared and the answer is NOT_CONNECTED
C12_Witness ==
  \E t \in Tenants :
    /\ sessions[t] # NoSession
    /\ adapters[sessions[t]].conn
    /\ "LOGGED_IN" \in reached[sessions[t]]
    /\ ~sessObj[sessions[t]].ready
    /\ ~uncaught
    /\ resp = Reply("session-status", t, 200, Body("NOT_CONNECTED", "", NULL, <<>>))

\* C13: every client.sendMessage call is issued by the continuation of a probe of
\* that client made for the same request: the step that issues the call retires
\* a pending probe of the client.
C13_SendOnlyAfterProbe ==
  [][\A c \in AdapterIds :
       sendCalls'[c] > sendCalls[c] =>
         \E task \in BagToSet(tasks) :
           /\ task.kind \in {"send-probe", "media-probe"}
           /\ task.s = c
           /\ CopiesIn(task, tasks') = CopiesIn(task, tasks) - 1
  ]_vars

\* C14: no registered session has a client whose logout has been carried out.
C14_NoLookupAfterLogout ==
  \A t \in Tenants :
    sessions[t] # NoSession => adapters[sessions[t]].phase # "loggedout"

\* C15: the completion of a logout or of a force-reset whose session is no longer
\* the registered one (another teardown removed it first) removes no entry.
C15_SecondRemoverNoOp ==
  [][\A task \in BagToSet(tasks), loggedOut \in BOOLEAN :
       ((LogoutSessionDone(task, loggedOut) \/ ForceResetDone(task, loggedOut))
          /\ sessions[task.t] # task.s)
         => sessions' = sessions
  ]_vars

\* C16: a status query that arrives after the client of the registered session
\* raised auth_failure, and completes while that session is still registered,
\* answers AUTH_FAILURE.
C16_AuthFailureReported ==
  [][\A task \in BagToSet(tasks), state \in GetStateResults :
       (SessionStatusDone(task, state) /\ sessions[task.t] = task.s
          /\ task.arg = "after-auth-failure")
         => resp'.body.status = "AUTH_FAILURE"
  ]_vars

\* the credential directories of an id, current layout and legacy layout
OwnDirs(t) == {getAuthDirsForSession(t)[1], getAuthDirsForSession(t)[2]}

\* C17: a step that removes a credential directory of an id leaves no session
\* registered for that id.
C17_NoDeleteWhileRegistered ==
  [][\A t \in Tenants :
       (dirs \ dirs') \cap OwnDirs(t) # {} => sessions'[t] = NoSession
  ]_vars

\* the events a step publishes to the room of t
Published(t) == SubSeq(pubLog'[t], Len(pubLog[t]) + 1, Len(pubLog'[t]))

C19_OtherTenantDirsKept ==
  [][\A t \in Tenants : DeleteCache(t) =>
       \A u \in Tenants \ {t} :
         getAuthDirsForSession(u)[1] \in dirs => getAuthDirsForSession(u)[1] \in dirs'
  ]_vars

\* a step made for id a changes nothing held for another id b (its table entry,
\* the ready flag and stored QR of the session objects built for it, what was
\* published to its room) and delivers nothing to a socket outside a's room
Frame(a) ==
  /\ \A b \in Tenants \ {a} :
       /\ sessions'[b] = sessions[b]
       /\ pubLog'[b] = pubLog[b]
       /\ \A c \in AdapterIds : adapters[c].tenant = b => sessObj'[c] = sessObj[c]
  /\ \A o \in Observers : a \notin rooms'[o] => inbox'[o] = inbox[o]

\* C20: every request, every join, every continuation of a suspended handler and
\* every client event made for one id leaves the table entry, the session
\* objects and the published events of every other id unchanged.  Stated
\* contrapositively: a step that does not keep the frame of an id is no step made
\* for that id (requests, joins and events accept an input, continuations do not,
\* and only a live client raises events).
C20_TenantFrame ==
  [][/\ \A t \in Tenants :
          (nInputs' # nInputs /\ ~Frame(t)) =>
            ~ (\/ StartSession(t) \/ SessionStatus(t) \/ SendMessage(t) \/ LogoutSession(t)
               \/ DeleteCache(t) \/ ForceReset(t)
               \/ \E o \in Observers : JoinSession(o, t))
     /\ \A task \in BagToSet(tasks) :
          (nInputs' = nInputs /\ ~Frame(task.t)) =>
            ~ (\/ \E state \in GetStateResults :
                    SessionStatusDone(task, state) \/ SendMessageProbed(task, state)
               \/ \E b \in BOOLEAN :
                    \/ SendMessageDone(task, b) \/ OnQrEncoded(task, b)
                    \/ LogoutSessionDone(task, b) \/ ForceResetDone(task, b)
               \/ LogoutPerformed(task))
     /\ \A c \in AdapterIds :
          (adapters[c].phase = "live" /\ nInputs' # nInputs /\ ~Frame(adapters[c].tenant)) =>
            ~ (\/ \E qr \in QrPayloads : OnQr(c, qr)
               \/ OnAuthenticated(c) \/ OnReady(c) \/ OnAuthFailure(c) \/ OnDisconnected(c)
               \/ SilentDrop(c) \/ StoreCredentials(c))
  ]_vars

\* two ids started; the client of one raised ready, a socket in its room was told
\* LOGGED_IN, and the other id's session is as its start left it
C20_Witness ==
  \E a \in Tenants, b \in Tenants, o \in Observers :
    /\ a # b
    /\ sessions[a] # NoSession /\ sessions[b] # NoSession
    /\ sessObj[sessions[a]].ready
    /\ sessObj[sessions[b]] = [ready |-> FALSE, qrDataUrl |-> NULL]
    /\ pubLog[a] = <<StatusEv("LOGGED_IN")>> /\ pubLog[b] = <<>>
    /\ a \in rooms[o] /\ inbox[o][Len(inbox[o])] = StatusEv("LOGGED_IN")

\* C21: when the send call of a text or media request settles, a sent event is
\* published to the room and the response is SENT exactly when the call
\* succeeded; when it failed the response is an error, nothing is published,
\* the table is left as it is and no further send is issued.
C21_SentIffSendSucceeded ==
  [][\A task \in BagToSet(tasks) :
       /\ \A sent \in BOOLEAN :
            SendMessageDone(task, sent) =>
              /\ sent <=> /\ pubLog'[task.t] = Append(pubLog[task.t], SentEv("text", ""))
                          /\ resp'.http = 200 /\ resp'.body.status = "SENT"
              /\ ~sent => /\ resp'.http >= 400 /\ pubLog' = pubLog /\ inbox' = inbox
                          /\ sessions' = sessions /\ sendCalls' = sendCalls
                          /\ tasks' = Retire(task)
       /\ \A sent \in BOOLEAN, moved \in BOOLEAN :
            SendMediaDone(task, sent, moved) =>
              /\ sent <=> /\ pubLog'[task.t] = Append(pubLog[task.t], SentEv("media", "file"))
                          /\ resp'.http = 200 /\ resp'.body.status = "SENT"
              /\ ~sent => /\ resp'.http >= 400 /\ pubLog' = pubLog /\ inbox' = inbox
                          /\ sessions' = sessions /\ sendCalls' = sendCalls
                          /\ tasks' = Retire(task)
  ]_vars

\* C22: an id that was started before can be started again once it has no entry.
\* Every removal (the continuation of a logout or of a force reset, the client's
\* disconnected event) leaves the id without an entry, also when its client had
\* raised auth_failure; auth_failure itself removes nothing; and a start for an
\* id that had a client and has no entry constructs a new client, registers a
\* fresh session object (not ready, no QR) for it and answers STARTING.
C22_RestartAfterRemoval ==
  [][/\ \A task \in BagToSet(tasks) :
          (nInputs' = nInputs /\ task.kind \in {"logout", "force-reset"}) =>
            \A b \in BOOLEAN :
              (LogoutSessionDone(task, b) \/ ForceResetDone(task, b)) =>
                sessions'[task.t] = NoSession
     /\ \A c \in AdapterIds :
          (adapters[c].phase = "live" /\ nInputs' # nInputs) =>
            /\ OnDisconnected(c) => sessions'[adapters[c].tenant] = NoSession
            /\ OnAuthFailure(c) => sessions' = sessions
     /\ \A t \in Tenants :
          (nInputs' # nInputs /\ sessions[t] = NoSession /\ startCalls[t] > 0
             /\ StartSession(t)) =>
            LET c == sessions'[t] IN
            /\ c \in AdapterIds /\ c \notin Created
            /\ adapters'[c] = [tenant |-> t, phase |-> "live", conn |-> FALSE,
                               readied |-> FALSE]
            /\ \A d \in AdapterIds \ {c} : adapters'[d] = adapters[d]
            /\ sessObj'[c] = [ready |-> FALSE, qrDataUrl |-> NULL]
            /\ resp' = Reply("start-session", t, 200, StatusBody("STARTING"))
  ]_vars

\* an id whose first client raised auth_failure was torn down and started again:
\* a second client is registered with a fresh session object
C22_Witness ==
  \E t \in Tenants, c1 \in AdapterIds, c2 \in AdapterIds :
    /\ c1 # c2 /\ adapters[c1].tenant = t /\ adapters[c2].tenant = t
    /\ "AUTH_FAILURE" \in reached[c1]
    /\ sessions[t] = c2 /\ adapters[c2].phase = "live"
    /\ sessObj[c2] = [ready |-> FALSE, qrDataUrl |-> NULL]
    /\ startCalls[t] = 2
    /\ resp = Reply("start-session", t, 200, StatusBody("STARTING"))

\* the session registered for t stands between its authenticated and its ready
\* event: AUTHENTICATED is the last status published for the id
BetweenAuthenticatedAndReady(t) ==
  /\ sessions[t] # NoSession
  /\ "AUTHENTICATED" \in reached[sessions[t]]
  /\ reached[sessions[t]] \cap {"LOGGED_IN", "AUTH_FAILURE"} = {}
  /\ pubLog[t] # <<>> /\ pubLog[t][Len(pubLog[t])] = StatusEv("AUTHENTICATED")

\* C23: the authenticated handler publishes AUTHENTICATED and leaves the stored
\* QR as it is; and while a session stands between authenticated and ready, a
\* joining socket is replayed AUTHENTICATED and a status query answers
\* AUTHENTICATED.
C23_AuthenticatedReported ==
  [][/\ \A c \in AdapterIds :
          (adapters[c].phase = "live" /\ OnAuthenticated(c)) =>
            /\ pubLog'[adapters[c].tenant] =
                 Append(pubLog[adapters[c].tenant], StatusEv("AUTHENTICATED"))
            /\ sessObj' = sessObj
     /\ \A t \in Tenants :
          BetweenAuthenticatedAndReady(t) =>
            /\ \A o \in Observers :
                 JoinSession(o, t) =>
                   inbox'[o][Len(inbox[o]) + 1] = StatusEv("AUTHENTICATED")
            /\ \A task \in BagToSet(tasks), state \in GetStateResults :
                 (task.t = t /\ task.s = sessions[t] /\ SessionStatusDone(task, state)) =>
                   resp'.body.status = "AUTHENTICATED"
  ]_vars

\* client c is not the client of the session registered under its id: the entry
\* was removed, or a later start registered another session
Stale(c) == adapters[c].phase = "live" /\ sessions[adapters[c].tenant] # c

\* C24: the handler of an event raised by a client that is not the client of the
\* session registered under its id (qr up to its await, authenticated, ready,
\* auth_failure, disconnected) leaves the table and every registered session
\* object as they are and ends in no uncaught exception.
C24_StaleEventsHarmless ==
  [][\A c \in AdapterIds :
       (Stale(c) /\ nInputs' # nInputs
          /\ (\/ \E qr \in QrPayloads : OnQr(c, qr)
              \/ OnAuthenticated(c) \/ OnReady(c) \/ OnAuthFailure(c) \/ OnDisconnected(c))) =>
         /\ sessions' = sessions
         /\ \A t \in Tenants : sessions[t] # NoSession =>
                                 sessObj'[sessions[t]] = sessObj[sessions[t]]
         /\ uncaught' = uncaught
  ]_vars

\* C25: sendMessage is called only on the client of the session that is
\* registered under the id at that moment; a send request whose session left the
\* table while its probe was awaited calls no sendMessage, and its probe writes
\* the ready flag of no session object that is out of the table.
C25_SendThroughRegisteredOnly ==
  [][/\ \A c \in AdapterIds :
          sendCalls'[c] # sendCalls[c] => sessions[adapters[c].tenant] = c
     /\ \A task \in BagToSet(tasks) :
          (nInputs' = nInputs /\ task.kind \in {"send-probe", "media-probe"}
             /\ sessions[task.t] # task.s) =>
            \A state \in GetStateResults :
              (SendMessageProbed(task, state) \/ SendMediaProbed(task, state)) =>
                sendCalls' = sendCalls /\ sessObj' = sessObj
  ]_vars

\* C26: for an id that has had one client, once LOGGED_IN was published no QR
\* image and no WAITING_QR status is published unless the client raised a qr
\* event after its ready event: the continuation of a qr handler that was raised
\* before ready publishes no QR once ready was handled.
C26_NoQrAfterLoggedIn ==
  [][\A task \in BagToSet(tasks) :
       (nInputs' = nInputs /\ task.kind = "qr" /\ readyFresh[task.t]
          /\ Cardinality({c \in Created : adapters[c].tenant = task.t}) = 1) =>
         \A encoded \in BOOLEAN :
           OnQrEncoded(task, encoded) =>
             \A i \in (Len(pubLog[task.t]) + 1)..Len(pubLog'[task.t]) :
               /\ pubLog'[task.t][i][1] # "qr"
               /\ pubLog'[task.t][i] # StatusEv("WAITING_QR")
  ]_vars

\* ---- the server under the event loop's scheduling ----
\* an awaited client.logout() settles (it returns or it throws), and the event
\* loop then runs the continuation of the handler that awaits it
LogoutSettlesEventually ==
  /\ WF_vars(\E task \in BagToSet(tasks), loggedOut \in BOOLEAN :
               LogoutSessionDone(task, loggedOut))
  /\ WF_vars(\E task \in BagToSet(tasks), loggedOut \in BOOLEAN :
               ForceResetDone(task, loggedOut))

SpecLive == Init /\ [][Next]_vars /\ LogoutSettlesEventually

\* a logout or force-reset request for t that captured session c is suspended
Awaiting(kind, t, c) == CopiesIn(Task(kind, t, c, ""), tasks) > 0

\* C27: every logout request and every force-reset request that found a session
\* is eventually completed, with the session it found no longer registered under
\* its id, whatever client events and other requests are interleaved; and the
\* step that completes it answers the request.
C27_TeardownCompletes ==
  /\ \A t \in Tenants, c \in AdapterIds :
       /\ Awaiting("logout", t, c) ~> (~Awaiting("logout", t, c) /\ sessions[t] # c)
       /\ Awaiting("force-reset", t, c)
            ~> (~Awaiting("force-reset", t, c) /\ sessions[t] # c)
  /\ [][\A task \in BagToSet(tasks) :
          (nInputs' = nInputs /\ task.kind \in {"logout", "force-reset"}) =>
            \A b \in BOOLEAN :
              /\ LogoutSessionDone(task, b) =>
                   resp' = Reply("logout-session", task.t, 200, StatusBody("LOGGED_OUT"))
              /\ ForceResetDone(task, b) =>
                   resp'.op = "force-reset" /\ resp'.t = task.t /\ resp'.http = 200
     ]_vars

\* a logout request was suspended, the client raised disconnected meanwhile, and
\* the request still completed: the id has no entry and the answer is LOGGED_OUT
C27_Witness ==
  \E t \in Tenants :
    /\ startCalls[t] = 1 /\ sessions[t] = NoSession
    /\ Pending("logout") = {} /\ Pending("force-reset") = {}
    /\ pubLog[t] = <<StatusDetailEv("DISCONNECTED", "reason"), StatusEv("LOGGED_OUT")>>
    /\ resp = Reply("logout-session", t, 200, StatusBody("LOGGED_OUT"))
====
